---- MODULE Spec2Model ----
(***************************************************************************)
(* Model of async_simple/coro/LazyLocalBase.h: the type-tagged base handle *)
(* LazyLocalBase, the per-type tag of LazyLocalBaseImpl<Derived>, the      *)
(* value wrapper SimpleLazyLocal<T> and LazyLocalBase::dynamicCast<T>().   *)
(*                                                                         *)
(* Types are named by strings.  Addresses of the static typeTag objects    *)
(* are integers laid out by the link order `layout`; pointers returned by  *)
(* dynamicCast are pairs <<handle, field>>.                                *)
(***************************************************************************)
EXTENDS Integers, Sequences, FiniteSets, TLC

\* ---------------------------------------------------------------- bounds
\* number of storage slots in which a handle object can be constructed
MaxHandles == 2
\* number of threads of the concurrent first-use scenario
MaxThreads == 2
\* address of the first object of the static-storage segment (never null)
StaticBase == 1

\* ------------------------------------------------------ program constants
\* nullptr
NullAddr == 0
\* sizeof(detail::LazyLocalBaseTypeTag): an empty struct is a complete
\* object of size 1
SizeofTypeTag == 1
\* localValue of an object that has no localValue member
NoValue == 0

\* ------------------------------------------------------------ the types
\* class LazyLocalBase
LazyLocalBase == "LazyLocalBase"

\* user leaf types  struct A : LazyLocalBaseImpl<A> {},  struct B likewise
LeafTypes == {"A", "B"}

\* plain payload types, unrelated to LazyLocalBase
PlainTypes == {"int", "double"}

\* SimpleLazyLocal<T>
SimpleLazyLocal(T) == "SimpleLazyLocal<" \o T \o ">"

\* the T for which the program instantiates SimpleLazyLocal<T>
ValueTypes == PlainTypes \cup {"A", LazyLocalBase}

\* the T for which the program constructs SimpleLazyLocal<T> objects
WrappedTypes == {"int", "A", LazyLocalBase}

WrapperTypes == {SimpleLazyLocal(T) : T \in ValueTypes}

\* LazyLocalBaseImpl<Derived>
LazyLocalBaseImpl(Derived) == "LazyLocalBaseImpl<" \o Derived \o ">"

\* every Derived for which LazyLocalBaseImpl<Derived>::typeTag exists
Tagged == LeafTypes \cup WrapperTypes

\* the T of dynamicCast<T>()
CastTargets == {LazyLocalBase} \cup LeafTypes \cup PlainTypes \cup WrapperTypes

\* payload values passed to SimpleLazyLocal<T>(args...)
Values == {41, 42, 43}

\* the values of type T: two ints; one A and one LazyLocalBase, which have no
\* state of their own to tell two values apart
ValuesOf(T) == IF T \in PlainTypes THEN {41, 42} ELSE {43}

\* what a payload constructor can throw
Exceptions == {"E1", "E2"}

Handles == 1..MaxHandles

Threads == 1..MaxThreads

\* the base classes of a type (direct and indirect)
BasesOf(T) ==
    IF T \in Tagged THEN {LazyLocalBaseImpl(T), LazyLocalBase} ELSE {}

\* std::is_base_of_v<Base, T> for class types
is_base_of(Base, T) ==
    /\ T \in Tagged \cup {LazyLocalBase}
    /\ (Base = T \/ Base \in BasesOf(T))

\* concept isDerivedFromLazyLocal<T>
isDerivedFromLazyLocal(T) == is_base_of(LazyLocalBaseImpl(T), T)

\* ------------------------------------------------------------ the state
VARIABLES
    layout,   \* the order in which the typeTag objects lie in static storage
    handles,  \* the handle object in each storage slot
    outcome,  \* how the last finished call ended: it returned or it threw
    pc,       \* each thread's position (concurrent scenario)
    reg       \* each thread's local value (concurrent scenario)

vars == <<layout, handles, outcome, pc, reg>>

\* position of x in sequence s
PosIn(s, x) == CHOOSE i \in 1..Len(s) : s[i] = x

\* one fixed enumeration of Tagged
TagOrder ==
    <<"A", "B", SimpleLazyLocal("int"), SimpleLazyLocal("double"),
      SimpleLazyLocal("A"), SimpleLazyLocal(LazyLocalBase)>>

Reverse(s) == [i \in 1..Len(s) |-> s[Len(s) + 1 - i]]

\* the link orders considered
Layouts == {TagOrder, Reverse(TagOrder)}

\* fault: the first typeTag lies at address 0, so its address is nullptr
AddrOfTypeTagFromNull(Derived) ==
    NullAddr + (PosIn(layout, Derived) - 1) * SizeofTypeTag

\* fault: typeTag is a static member of the non-template base, one object
\* shared by every Derived
AddrOfSharedTypeTag(Derived) ==
    StaticBase + (PosIn(layout, layout[1]) - 1) * SizeofTypeTag

\* &LazyLocalBaseImpl<Derived>::typeTag
AddrOfTypeTag(Derived) ==
    StaticBase + (PosIn(layout, Derived) - 1) * SizeofTypeTag

\* storage in which no object lives
FreeSlot ==
    [st |-> "free", dyn |-> "none", typeinfo |-> NullAddr, localValue |-> NoValue]

Live(h) == handles[h].st = "live"

\* no constructor is running
Quiescent == \A h \in Handles : handles[h].st # "constructing"

\* pointers
NullPtr == <<0, "null">>

This(h) == <<h, "this">>

LocalValuePtr(h) == <<h, "localValue">>

\* the value a non-null pointer designates
Deref(p) ==
    IF p[2] = "localValue" THEN handles[p[1]].localValue ELSE handles[p[1]]

\* the last call was a constructor, an assignment or a destructor and returned
Returned == "returned"

\* the last call was a noexcept query (empty, isMe, dynamicCast) and returned
Queried == "queried"

\* ------------------------------------------------------- pure operations
\* bool empty() const noexcept
empty(h) == handles[h].typeinfo = NullAddr

\* static bool LazyLocalBaseImpl<Derived>::isMe(LazyLocalBase* p)
isMe(Derived, p) == handles[p].typeinfo = AddrOfTypeTag(Derived)

\* fault: the base-type case also goes through the token and fails on an
\* empty handle
dynamicCastCheckedBase(h, T) ==
    IF T = LazyLocalBase THEN (IF empty(h) THEN NullPtr ELSE This(h))
    ELSE IF isDerivedFromLazyLocal(T)
         THEN IF isMe(T, h) THEN This(h) ELSE NullPtr
         ELSE IF isMe(SimpleLazyLocal(T), h) THEN LocalValuePtr(h) ELSE NullPtr

\* fault: the payload case returns the wrapper itself, reinterpreted, instead
\* of the address of its localValue member
dynamicCastNoPayload(h, T) ==
    IF T = LazyLocalBase THEN This(h)
    ELSE IF isDerivedFromLazyLocal(T)
         THEN IF isMe(T, h) THEN This(h) ELSE NullPtr
         ELSE IF isMe(SimpleLazyLocal(T), h) THEN This(h) ELSE NullPtr

\* T* LazyLocalBase::dynamicCast<T>() noexcept
dynamicCast(h, T) ==
    IF T = LazyLocalBase THEN This(h)
    ELSE IF isDerivedFromLazyLocal(T)
         THEN IF isMe(T, h) THEN This(h) ELSE NullPtr
         ELSE IF isMe(SimpleLazyLocal(T), h) THEN LocalValuePtr(h) ELSE NullPtr

\* ------------------------------------------------------------- actions
\* LazyLocalBase(std::nullptr_t)
MakeEmpty(h) ==
    /\ Quiescent
    /\ handles[h].st = "free"
    /\ handles' = [handles EXCEPT ![h] =
           [st |-> "live", dyn |-> LazyLocalBase, typeinfo |-> NullAddr,
            localValue |-> NoValue]]
    /\ outcome' = Returned
    /\ UNCHANGED <<layout, pc, reg>>

\* Derived() for a leaf type: LazyLocalBaseImpl() : LazyLocalBase(&typeTag)
ConstructLeaf(h, Derived) ==
    /\ Quiescent
    /\ handles[h].st = "free"
    /\ handles' = [handles EXCEPT ![h] =
           [st |-> "live", dyn |-> Derived, typeinfo |-> AddrOfTypeTag(Derived),
            localValue |-> NoValue]]
    /\ outcome' = Returned
    /\ UNCHANGED <<layout, pc, reg>>

\* SimpleLazyLocal<T>(args...), first part: the base class subobject
\* LazyLocalBaseImpl<SimpleLazyLocal<T>>() is initialised before the member
WrapBase(h, T) ==
    /\ Quiescent
    /\ handles[h].st = "free"
    /\ handles' = [handles EXCEPT ![h] =
           [st |-> "constructing", dyn |-> SimpleLazyLocal(T),
            typeinfo |-> AddrOfTypeTag(SimpleLazyLocal(T)),
            localValue |-> NoValue]]
    /\ UNCHANGED <<layout, outcome, pc, reg>>

\* second part: localValue(std::forward<Args>(args)...) returns
WrapPayload(h, v) ==
    /\ handles[h].st = "constructing"
    /\ \E T \in WrappedTypes :
          handles[h].dyn = SimpleLazyLocal(T) /\ v \in ValuesOf(T)
    /\ handles' = [handles EXCEPT ![h].st = "live", ![h].localValue = v]
    /\ outcome' = Returned
    /\ UNCHANGED <<layout, pc, reg>>

\* fault: the constructor catches the exception and leaves a live wrapper
\* without a payload
WrapThrowSwallowed(h, e) ==
    /\ handles[h].st = "constructing"
    /\ handles' = [handles EXCEPT ![h].st = "live"]
    /\ outcome' = Returned
    /\ UNCHANGED <<layout, pc, reg>>

\* second part: the constructor of localValue throws e; the base subobject
\* is destroyed and e leaves the constructor
WrapThrow(h, e) ==
    /\ handles[h].st = "constructing"
    /\ handles' = [handles EXCEPT ![h] = FreeSlot]
    /\ outcome' = e
    /\ UNCHANGED <<layout, pc, reg>>

\* implicit LazyLocalBase(const LazyLocalBase&)
CopyConstruct(h, src) ==
    /\ Quiescent
    /\ handles[h].st = "free"
    /\ Live(src)
    /\ handles' = [handles EXCEPT ![h] =
           [st |-> "live", dyn |-> LazyLocalBase,
            typeinfo |-> handles[src].typeinfo, localValue |-> NoValue]]
    /\ outcome' = Returned
    /\ UNCHANGED <<layout, pc, reg>>

\* implicit LazyLocalBase& operator=(const LazyLocalBase&)
CopyAssign(dst, src) ==
    /\ Quiescent
    /\ Live(dst)
    /\ Live(src)
    /\ handles' = [handles EXCEPT ![dst].typeinfo = handles[src].typeinfo]
    /\ outcome' = Returned
    /\ UNCHANGED <<layout, pc, reg>>

\* virtual ~LazyLocalBase()
Destroy(h) ==
    /\ Quiescent
    /\ Live(h)
    /\ handles' = [handles EXCEPT ![h] = FreeSlot]
    /\ outcome' = Returned
    /\ UNCHANGED <<layout, pc, reg>>

\* a call of h.empty()
Empty(h) ==
    /\ Quiescent
    /\ Live(h)
    /\ outcome' = Queried
    /\ UNCHANGED <<layout, handles, pc, reg>>

\* a call of Derived::isMe(&h)
IsMe(Derived, h) ==
    /\ Quiescent
    /\ Live(h)
    /\ outcome' = Queried
    /\ UNCHANGED <<layout, handles, pc, reg>>

\* fault: a successful cast takes the value out and leaves the handle empty
DynamicCastConsuming(h, T) ==
    /\ Quiescent
    /\ Live(h)
    /\ handles' = [handles EXCEPT ![h].typeinfo =
           IF dynamicCast(h, T) = NullPtr THEN handles[h].typeinfo ELSE NullAddr]
    /\ outcome' = Queried
    /\ UNCHANGED <<layout, pc, reg>>

\* a call of h.dynamicCast<T>()
DynamicCast(h, T) ==
    /\ Quiescent
    /\ Live(h)
    /\ outcome' = Queried
    /\ UNCHANGED <<layout, handles, pc, reg>>

\* ------------------------------------- the same code, run by several threads
\* a thread between two calls
Idle == [at |-> "idle", ty |-> "none"]

\* the storage slot thread t constructs its handle in (one owner per handle)
SlotOf(t) == t

\* fault: the token is a lazily created pointer read without synchronisation;
\* a thread racing with another constructor reads it before it is set
T_TakeTagRacy(t, Derived) ==
    /\ pc[t] = Idle
    /\ handles[SlotOf(t)].st = "free"
    /\ reg' = [reg EXCEPT ![t].addr =
           IF \E u \in Threads \ {t} : pc[u].at = "ctor"
           THEN NullAddr ELSE AddrOfTypeTag(Derived)]
    /\ pc' = [pc EXCEPT ![t] = [at |-> "ctor", ty |-> Derived]]
    /\ UNCHANGED <<layout, handles, outcome>>

\* LazyLocalBaseImpl() : LazyLocalBase(&typeTag), first half: thread t takes
\* the address of the static typeTag as the constructor argument
T_TakeTag(t, Derived) ==
    /\ pc[t] = Idle
    /\ handles[SlotOf(t)].st = "free"
    /\ reg' = [reg EXCEPT ![t].addr = AddrOfTypeTag(Derived)]
    /\ pc' = [pc EXCEPT ![t] = [at |-> "ctor", ty |-> Derived]]
    /\ UNCHANGED <<layout, handles, outcome>>

\* second half: LazyLocalBase(typeinfo) : _typeinfo(typeinfo)
T_Stamp(t) ==
    /\ pc[t].at = "ctor"
    /\ handles' = [handles EXCEPT ![SlotOf(t)] =
           [st |-> "live", dyn |-> pc[t].ty, typeinfo |-> reg[t].addr,
            localValue |-> NoValue]]
    /\ pc' = [pc EXCEPT ![t] = Idle]
    /\ UNCHANGED <<layout, outcome, reg>>

\* Derived::isMe(p), first half: thread t loads p->_typeinfo of its handle
T_IsMeLoad(t, Derived) ==
    /\ pc[t] = Idle
    /\ Live(SlotOf(t))
    /\ reg' = [reg EXCEPT ![t].addr = handles[SlotOf(t)].typeinfo]
    /\ pc' = [pc EXCEPT ![t] = [at |-> "isMe", ty |-> Derived]]
    /\ UNCHANGED <<layout, handles, outcome>>

\* second half: ... == &typeTag
T_IsMeCompare(t) ==
    /\ pc[t].at = "isMe"
    /\ reg' = [reg EXCEPT ![t].res = (reg[t].addr = AddrOfTypeTag(pc[t].ty))]
    /\ pc' = [pc EXCEPT ![t] = Idle]
    /\ UNCHANGED <<layout, handles, outcome>>

\* thread t destroys its handle
T_Destroy(t) ==
    /\ pc[t] = Idle
    /\ Live(SlotOf(t))
    /\ handles' = [handles EXCEPT ![SlotOf(t)] = FreeSlot]
    /\ UNCHANGED <<layout, outcome, pc, reg>>

Init ==
    /\ layout \in Layouts
    /\ handles = [h \in Handles |-> FreeSlot]
    /\ outcome = Returned
    /\ pc = [t \in Threads |-> Idle]
    /\ reg = [t \in Threads |-> [addr |-> NullAddr, res |-> FALSE]]

Next ==
    \/ \E h \in Handles : MakeEmpty(h)
    \/ \E h \in Handles, D \in LeafTypes : ConstructLeaf(h, D)
    \/ \E h \in Handles, T \in WrappedTypes : WrapBase(h, T)
    \/ \E h \in Handles, v \in Values : WrapPayload(h, v)
    \/ \E h \in Handles, e \in Exceptions : WrapThrow(h, e)
    \/ \E h, src \in Handles : CopyConstruct(h, src)
    \/ \E dst, src \in Handles : CopyAssign(dst, src)
    \/ \E h \in Handles : Destroy(h)
    \/ \E h \in Handles : Empty(h)
    \/ \E h \in Handles, D \in Tagged : IsMe(D, h)
    \/ \E h \in Handles, T \in CastTargets : DynamicCast(h, T)

Spec == Init /\ [][Next]_vars

\* concurrent first use of the leaf types by the threads
NextMT ==
    \/ \E t \in Threads, D \in LeafTypes : T_TakeTag(t, D)
    \/ \E t \in Threads : T_Stamp(t)
    \/ \E t \in Threads, D \in LeafTypes : T_IsMeLoad(t, D)
    \/ \E t \in Threads : T_IsMeCompare(t)
    \/ \E t \in Threads : T_Destroy(t)

SpecMT == Init /\ [][NextMT]_vars

\* ================================================================ claims
\* the payload type of a wrapper handle
PayloadTypeOf(h) ==
    CHOOSE T \in ValueTypes : handles[h].dyn = SimpleLazyLocal(T)

IsWrapper(h) == \E T \in ValueTypes : handles[h].dyn = SimpleLazyLocal(T)

\* the targets neither T itself, nor the base type, nor T's own wrapper
Unrelated(T) == CastTargets \ {T, LazyLocalBase, SimpleLazyLocal(T)}

\* C1: every instance a of a leaf type A casts to A as a pointer to itself and
\* casts to every other leaf type B as null.
C1_LeafDowncast ==
    \A h \in Handles : \A A \in LeafTypes :
        (Live(h) /\ handles[h].dyn = A) =>
            /\ dynamicCast(h, A) = This(h)
            /\ \A B \in LeafTypes \ {A} : dynamicCast(h, B) = NullPtr

\* the round trip of one wrapper, in the state its constructor leaves
RoundTrip(h, T, v) ==
    /\ dynamicCast(h, T) = LocalValuePtr(h)
    /\ Deref(dynamicCast(h, T)) = v
    /\ \A W \in Unrelated(T) : dynamicCast(h, W) = NullPtr

\* C2 as stated: for ANY value type V (a leaf type and the base type
\* included), when SimpleLazyLocal<V>(v) has been built, dynamicCast<V>()
\* points at the payload, which equals v, and dynamicCast<W>() is null for
\* every unrelated W.
C2_RoundTripAnyType ==
    [][\A h \in Handles, v \in Values :
          WrapPayload(h, v) => RoundTrip(h, PayloadTypeOf(h), v)']_vars

\* C2 amended: the same for every PLAIN value type V, one that is neither
\* LazyLocalBase nor derived from LazyLocalBaseImpl<V>.
C2_RoundTripPlainType ==
    [][\A h \in Handles, v \in Values :
          (WrapPayload(h, v) /\ PayloadTypeOf(h) \in PlainTypes)
              => RoundTrip(h, PayloadTypeOf(h), v)']_vars

C2_Witness ==
    \E h \in Handles :
        /\ Live(h)
        /\ handles[h].dyn = SimpleLazyLocal("int")
        /\ handles[h].localValue = 42
        /\ dynamicCast(h, "int") = LocalValuePtr(h)
        /\ Deref(dynamicCast(h, "int")) = 42
        /\ dynamicCast(h, "double") = NullPtr
        /\ outcome = Queried

\* an empty handle answers null to every typed query
EmptyAnswersNull(h) ==
    /\ \A T \in CastTargets \ {LazyLocalBase} : dynamicCast(h, T) = NullPtr
    /\ \A D \in Tagged : ~isMe(D, h)

\* C3: a handle made by LazyLocalBase(nullptr) is empty and answers null to
\* every cast but the one to LazyLocalBase; it stays so over every later
\* construction, destruction and query on any handle (every step that is not
\* an assignment to it); and empty() holds exactly when the stored pointer is
\* null.
C3_EmptyHandle ==
    /\ [](\A h \in Handles : Live(h) =>
            /\ empty(h) <=> (handles[h].typeinfo = NullAddr)
            /\ empty(h) => EmptyAnswersNull(h))
    /\ [][\A h \in Handles :
            /\ MakeEmpty(h) => (Live(h) /\ empty(h))'
            /\ (Live(h) /\ empty(h) /\ Live(h)'
                  /\ ~(\E src \in Handles : CopyAssign(h, src)))
                  => empty(h)']_vars

C3_Witness ==
    \E h, g \in Handles :
        /\ Live(h) /\ handles[h].dyn = LazyLocalBase /\ empty(h)
        /\ Live(g) /\ ~empty(g)
        /\ dynamicCast(h, "int") = NullPtr
        /\ dynamicCast(h, "A") = NullPtr
        /\ outcome = Queried

\* C4: on every handle, whatever token it stores, the cast to LazyLocalBase
\* returns the handle's own address.
C4_BaseCast ==
    \A h \in Handles : Live(h) => dynamicCast(h, LazyLocalBase) = This(h)

C4_Witness ==
    \E h, g \in Handles :
        /\ Live(h) /\ empty(h)
        /\ Live(g) /\ IsWrapper(g) /\ ~empty(g)
        /\ dynamicCast(h, LazyLocalBase) = This(h)
        /\ dynamicCast(g, LazyLocalBase) = This(g)
        /\ outcome = Queried

\* C5: a cast to T other than LazyLocalBase that returns non-null is a cast
\* of an object constructed as T (T a leaf type) or as SimpleLazyLocal<T>
\* (T a plain type); no handle carries the token of a type it is not an
\* instance of.
C5_SoundDowncast ==
    \A h \in Handles : Live(h) =>
        /\ \A T \in CastTargets \ {LazyLocalBase} :
              dynamicCast(h, T) # NullPtr =>
                  IF isDerivedFromLazyLocal(T)
                  THEN handles[h].dyn = T
                  ELSE handles[h].dyn = SimpleLazyLocal(T)
        /\ \A D \in Tagged : isMe(D, h) => handles[h].dyn = D

\* C6: distinct Derived have distinct typeTag addresses, none of them null.
C6_TokensInjective ==
    \A D1 \in Tagged :
        /\ AddrOfTypeTag(D1) # NullAddr
        /\ \A D2 \in Tagged \ {D1} : AddrOfTypeTag(D1) # AddrOfTypeTag(D2)

C6_Witness ==
    \E h, g \in Handles :
        /\ Live(h) /\ handles[h].dyn = "A"
        /\ Live(g) /\ handles[g].dyn = SimpleLazyLocal("int")
        /\ handles[h].typeinfo = AddrOfTypeTag("A")
        /\ handles[g].typeinfo = AddrOfTypeTag(SimpleLazyLocal("int"))
        /\ handles[h].typeinfo # handles[g].typeinfo

\* C7: every instance of a leaf type stores that type's token: Leaf::isMe
\* holds of every instance of Leaf, and two instances of one leaf type store
\* equal pointers.
C7_TokenPerType ==
    \A h \in Handles : (Live(h) /\ handles[h].dyn \in Tagged) =>
        /\ isMe(handles[h].dyn, h)
        /\ \A g \in Handles :
              (Live(g) /\ handles[g].dyn = handles[h].dyn)
                  => handles[g].typeinfo = handles[h].typeinfo

\* what every thread has in hand, at every point of every interleaving
TokensSeen ==
    /\ \A D \in LeafTypes : AddrOfTypeTag(D) # NullAddr
    /\ \A t \in Threads : pc[t].at = "ctor" =>
          /\ reg[t].addr # NullAddr
          /\ reg[t].addr = AddrOfTypeTag(pc[t].ty)
    /\ \A t, u \in Threads :
          (pc[t].at = "ctor" /\ pc[u].at = "ctor" /\ pc[t].ty = pc[u].ty)
              => reg[t].addr = reg[u].addr
    /\ \A t \in Threads : Live(SlotOf(t)) =>
          /\ handles[SlotOf(t)].typeinfo # NullAddr
          /\ handles[SlotOf(t)].typeinfo = AddrOfTypeTag(handles[SlotOf(t)].dyn)

\* C8: when threads race on the first use of a leaf type, no step creates or
\* moves a token, every thread takes the same token address, and no thread
\* stamps a handle with, or compares against, a null token.
C8_ConcurrentFirstUse ==
    /\ []TokensSeen
    /\ [][layout' = layout]_vars
    /\ [][\A t \in Threads :
            /\ T_Stamp(t) =>
                  handles'[SlotOf(t)].typeinfo = AddrOfTypeTag(pc[t].ty)
            /\ T_IsMeCompare(t) =>
                  (reg[t].res' <=> (handles[SlotOf(t)].dyn = pc[t].ty))]_vars

C8_Witness ==
    /\ \A h \in Handles : handles[h].st = "free"
    /\ \E t, u \in Threads :
          /\ t # u
          /\ pc[t].at = "ctor" /\ pc[u].at = "ctor"
          /\ pc[t].ty = pc[u].ty
          /\ reg[t].addr = reg[u].addr

\* C9: empty(), isMe() and dynamicCast<T>() change no handle (no stored
\* token, no payload) and no token; the answers of the queries, which are
\* functions of these, are therefore the same when the query is repeated.
C9_QueriesArePure ==
    [][(\E h \in Handles :
          \/ Empty(h)
          \/ \E D \in Tagged : IsMe(D, h)
          \/ \E T \in CastTargets : DynamicCast(h, T))
          => (handles' = handles /\ layout' = layout)]_vars

C9_Witness ==
    /\ outcome = Queried
    /\ \E h, g \in Handles :
          /\ h # g
          /\ Live(h) /\ handles[h].dyn = SimpleLazyLocal("int")
          /\ handles[h].localValue = 41
          /\ dynamicCast(h, "int") = LocalValuePtr(h)
          /\ Live(g) /\ handles[g].dyn = "B"
          /\ dynamicCast(g, "A") = NullPtr

====
